---- MODULE Spec2Model ----
(***************************************************************************)
(* A model of src/src/data_cleaning.py: the loan-table cleaning pipeline   *)
(* clean_and_prepare_raw_data_for_model and the column coercions and row   *)
(* filters it is built from.                                               *)
(*                                                                         *)
(* A table is a record [cols, dtypes, rows]: the set of column names, the  *)
(* dtype of each column and the sequence of rows, each row a function from *)
(* the column names to cells.  A cell is a tagged record:                  *)
(*   [nan |-> TRUE]   a missing value (NaN),                               *)
(*   [nat |-> TRUE]   a missing timestamp (NaT),                           *)
(*   [str |-> s]      a string, s a sequence of one-character strings,     *)
(*   [num |-> n, e |-> k]  the number n * 10^(-k),                         *)
(*   [date |-> d]     the first day of month d, d = 12 * year + month - 1, *)
(*   [bool |-> b]     a boolean,                                           *)
(* and a failed evaluation is [err |-> <exception name>].                  *)
(***************************************************************************)
EXTENDS Integers, Sequences, FiniteSets, TLC

VARIABLES
    caller,     \* the table object the caller passed in
    df,         \* the pipeline's working table (the local name df)
    aliased,    \* whether df is the very object the caller passed
    pc,         \* the next statement of clean_and_prepare_raw_data_for_model
    status,     \* "running", "returned" or "failed"
    err,        \* the exception that ended the run, "" if none
    log,        \* the stages executed so far, in order
    fn,         \* coercion under test (the coercion specification)
    arg,        \* its argument
    res         \* its result

vars == <<caller, df, aliased, pc, status, err, log, fn, arg, res>>

(***************************************************************************)
(* Bounds.                                                                 *)
(***************************************************************************)
MaxRows == 2

(***************************************************************************)
(* Cells.                                                                  *)
(***************************************************************************)
NaN == [nan |-> TRUE]

NaT == [nat |-> TRUE]

Str(s) == [str |-> s]

Num(n) == [num |-> n, e |-> 0]

Date(y, m) == [date |-> 12 * y + (m - 1)]

Err(name) == [err |-> name]

IsStr(c) == DOMAIN c = {"str"}

IsErr(c) == DOMAIN c = {"err"}

IsDate(c) == DOMAIN c = {"date"}

IsNum(c) == DOMAIN c = {"num", "e"}

isna(c) == c = NaN \/ c = NaT

\* the exception of the first cell of a column whose evaluation failed
FirstErr(cells) ==
    cells[CHOOSE i \in DOMAIN cells :
              IsErr(cells[i]) /\ \A j \in 1..(i - 1) : ~IsErr(cells[j])].err

HasErr(cells) == \E i \in DOMAIN cells : IsErr(cells[i])

(***************************************************************************)
(* Python strings, character by character.                                 *)
(***************************************************************************)
LowerCase ==
    << "a", "b", "c", "d", "e", "f", "g", "h", "i", "j", "k", "l", "m",
       "n", "o", "p", "q", "r", "s", "t", "u", "v", "w", "x", "y", "z" >>

UpperCase ==
    << "A", "B", "C", "D", "E", "F", "G", "H", "I", "J", "K", "L", "M",
       "N", "O", "P", "Q", "R", "S", "T", "U", "V", "W", "X", "Y", "Z" >>

DigitChars == << "0", "1", "2", "3", "4", "5", "6", "7", "8", "9" >>

Range(f) == { f[i] : i \in DOMAIN f }

isdigit(c) == c \in Range(DigitChars)

DigitVal(c) == (CHOOSE i \in 1..10 : DigitChars[i] = c) - 1

UpperChar(c) ==
    IF c \in Range(LowerCase)
    THEN UpperCase[CHOOSE i \in 1..26 : LowerCase[i] = c]
    ELSE c

upper(s) == [i \in 1..Len(s) |-> UpperChar(s[i])]

Whitespace == {" ", "\t", "\n", "\r"}

RECURSIVE lstrip(_)
lstrip(s) ==
    IF s # <<>> /\ Head(s) \in Whitespace THEN lstrip(Tail(s)) ELSE s

RECURSIVE rstrip(_, _)
rstrip(s, chars) ==
    IF s # <<>> /\ s[Len(s)] \in chars
    THEN rstrip(SubSeq(s, 1, Len(s) - 1), chars)
    ELSE s

strip(s) == rstrip(lstrip(s), Whitespace)

RECURSIVE rjust(_, _, _)
rjust(s, width, fill) ==
    IF Len(s) >= width THEN s ELSE rjust(<<fill>> \o s, width, fill)

\* the decimal digits of n, at least `width` of them
RECURSIVE Digits(_, _)
Digits(n, width) ==
    IF n < 10 /\ width <= 1
    THEN <<DigitChars[n + 1]>>
    ELSE Digits(n \div 10, width - 1) \o <<DigitChars[(n % 10) + 1]>>

RECURSIVE ToInt(_)
ToInt(s) ==
    IF s = <<>> THEN 0
    ELSE 10 * ToInt(SubSeq(s, 1, Len(s) - 1)) + DigitVal(s[Len(s)])

(***************************************************************************)
(* pd.to_datetime(value, format=...) for the three formats the code uses.  *)
(* The format is matched as datetime.strptime matches it: %y is exactly    *)
(* two digits, pivoted at 69; %Y exactly four digits; %b a month           *)
(* abbreviation in any letter case; the whole string must be consumed.     *)
(* Before matching, pandas maps its null-marker strings to NaT; and a      *)
(* month outside the range of a nanosecond timestamp is an error.          *)
(***************************************************************************)
MonthAbbr ==
    << <<"J", "a", "n">>, <<"F", "e", "b">>, <<"M", "a", "r">>,
       <<"A", "p", "r">>, <<"M", "a", "y">>, <<"J", "u", "n">>,
       <<"J", "u", "l">>, <<"A", "u", "g">>, <<"S", "e", "p">>,
       <<"O", "c", "t">>, <<"N", "o", "v">>, <<"D", "e", "c">> >>

nat_strings ==
    { <<"N", "a", "T">>, <<"n", "a", "t">>, <<"N", "A", "T">>,
      <<"n", "a", "n">>, <<"N", "a", "N">>, <<"N", "A", "N">> }

Fmt_y_b == <<"%y", "-", "%b">>

Fmt_b_y == <<"%b", "-", "%y">>

Fmt_b_Y == <<"%b", "-", "%Y">>

NoMatch == [y |-> -1, m |-> -1, ok |-> FALSE]

AllDigits(s) == \A i \in 1..Len(s) : isdigit(s[i])

\* match format `fmt` against s from position i on; acc holds the fields read
RECURSIVE strptime(_, _, _, _)
strptime(s, i, fmt, acc) ==
    IF fmt = <<>>
    THEN IF i = Len(s) + 1 THEN acc ELSE NoMatch
    ELSE LET d == Head(fmt) IN
         CASE d = "%y" ->
                IF i + 1 <= Len(s) /\ AllDigits(SubSeq(s, i, i + 1))
                THEN LET yy == ToInt(SubSeq(s, i, i + 1)) IN
                     strptime(s, i + 2, Tail(fmt),
                         [acc EXCEPT !.y = IF yy <= 68 THEN 2000 + yy ELSE 1900 + yy])
                ELSE NoMatch
           [] d = "%Y" ->
                IF i + 3 <= Len(s) /\ AllDigits(SubSeq(s, i, i + 3))
                THEN strptime(s, i + 4, Tail(fmt),
                         [acc EXCEPT !.y = ToInt(SubSeq(s, i, i + 3))])
                ELSE NoMatch
           [] d = "%b" ->
                IF i + 2 <= Len(s)
                   /\ \E m \in 1..12 : upper(SubSeq(s, i, i + 2)) = upper(MonthAbbr[m])
                THEN strptime(s, i + 3, Tail(fmt),
                         [acc EXCEPT !.m = CHOOSE m \in 1..12 :
                              upper(SubSeq(s, i, i + 2)) = upper(MonthAbbr[m])])
                ELSE NoMatch
           [] OTHER ->
                IF i <= Len(s) /\ s[i] = d
                THEN strptime(s, i + 1, Tail(fmt), acc)
                ELSE NoMatch

InTimestampRange(y, m) ==
    /\ 12 * y + m >= 12 * 1677 + 10
    /\ 12 * y + m <= 12 * 2262 + 4

to_datetime(s, fmt) ==
    IF s \in nat_strings
    THEN NaT
    ELSE LET r == strptime(s, 1, fmt, [y |-> -1, m |-> -1, ok |-> TRUE]) IN
         IF r.ok /\ InTimestampRange(r.y, r.m)
         THEN Date(r.y, r.m)
         ELSE Err("ValueError")

(***************************************************************************)
(* convert_date: one cell of a date column.                                *)
(***************************************************************************)
\* convert_date without the zero-padding of line 202
convert_date_nopad(col_date) ==
    IF ~IsStr(col_date) THEN Err("TypeError")
    ELSE LET s == col_date.str IN
         IF s = <<>> THEN Err("IndexError")
         ELSE IF isdigit(s[1])
              THEN to_datetime(s, Fmt_y_b)
              ELSE LET first == to_datetime(s, Fmt_b_y) IN
                   IF IsErr(first) THEN to_datetime(s, Fmt_b_Y) ELSE first

convert_date(col_date) ==
    IF ~IsStr(col_date) THEN Err("TypeError")          \* col_date[0] on a float
    ELSE LET s == col_date.str IN
         IF s = <<>> THEN Err("IndexError")            \* col_date[0] on ''
         ELSE IF isdigit(s[1])
              THEN to_datetime(rjust(s, 6, "0"), Fmt_y_b)
              ELSE LET first == to_datetime(s, Fmt_b_y) IN
                   IF IsErr(first) THEN to_datetime(s, Fmt_b_Y) ELSE first

(***************************************************************************)
(* One cell of the term column: 36 if the stripped string is '36 months',  *)
(* else 60 (line 154); a cell that is no string has no strip().            *)
(***************************************************************************)
s_36_months == <<"3", "6", " ", "m", "o", "n", "t", "h", "s">>

\* line 154 without the strip()
term_value_nostrip(row) ==
    IF ~IsStr(row) THEN Err("AttributeError")
    ELSE IF row.str = s_36_months THEN Num(36) ELSE Num(60)

term_value(row) ==
    IF ~IsStr(row) THEN Err("AttributeError")
    ELSE IF strip(row.str) = s_36_months THEN Num(36) ELSE Num(60)

(***************************************************************************)
(* The emp_length column, as a sequence of cells (lines 185-186).          *)
(***************************************************************************)
s_lt_1_year == <<"<", " ", "1", " ", "y", "e", "a", "r">>

\* the first run of digits of s: the group of the pattern (\d+); <<>> if none
RECURSIVE FirstDigitRun(_)
FirstDigitRun(s) ==
    IF s = <<>> THEN <<>>
    ELSE IF isdigit(Head(s))
         THEN LET n == CHOOSE k \in 1..Len(s) :
                          /\ AllDigits(SubSeq(s, 1, k))
                          /\ (k = Len(s) \/ ~isdigit(s[k + 1]))
              IN SubSeq(s, 1, n)
         ELSE FirstDigitRun(Tail(s))

\* line 185: the literal '< 1 year' is replaced by the integer 0
emp_replace(row) == IF row = Str(s_lt_1_year) THEN Num(0) ELSE row

\* .str.extract('(\d+)') on one cell, then astype('float32'): a cell that
\* is no string, or a string with no digit, gives NaN
emp_extract(row) ==
    IF IsStr(row) /\ FirstDigitRun(row.str) # <<>>
    THEN Num(ToInt(FirstDigitRun(row.str)))
    ELSE NaN

\* the dtype pandas infers for a column assigned from a Python list
ListDtype(cells) ==
    IF \E i \in DOMAIN cells : IsStr(cells[i]) THEN "object"
    ELSE IF cells # <<>> /\ \A i \in DOMAIN cells : IsNum(cells[i]) /\ cells[i].e = 0
         THEN "int64"
         ELSE "float64"

\* the .str accessor exists on object columns only
emp_length_column(cells) ==
    LET replaced == [i \in DOMAIN cells |-> emp_replace(cells[i])] IN
    IF ListDtype(replaced) # "object"
    THEN [cells |-> replaced, err |-> "AttributeError"]
    ELSE [cells |-> [i \in DOMAIN cells |-> emp_extract(replaced[i])], err |-> ""]

(***************************************************************************)
(* The coercions applied to one column: Init draws the column, an action   *)
(* applies one coercion to it the way its stage does.                      *)
(***************************************************************************)
\* the shapes of a date string, for month m and two-digit year yy
DigitFirst(m, yy) == Digits(yy, 2) \o <<"-">> \o MonthAbbr[m]

DigitFirstUnpadded(m, yy) == Digits(yy, 1) \o <<"-">> \o MonthAbbr[m]

LetterFirst(m, yy) == MonthAbbr[m] \o <<"-">> \o Digits(yy, 2)

LetterFirstFull(m, yyyy) == MonthAbbr[m] \o <<"-">> \o Digits(yyyy, 4)

FullYears == {1677, 1678, 1968, 1969, 2005, 2015, 2068, 2069, 2262, 2263}

MalformedDates ==
    { <<"N", "a", "T">>, <<"n", "a", "n">>, <<>>,
      <<"D", "e", "c", "-", "5">>, <<"D", "e", "c", "-", "2", "0", "1">>,
      <<"D", "e", "c", " ", "2", "0", "1", "5">>,
      <<"2", "0", "1", "5", "-", "D", "e", "c">>,
      <<"5", "-", "D", "e">>, <<"5">>, <<"-", "D", "e", "c">>,
      <<"D", "e", "c", "-", "0", "5", " ">>,
      <<"1", "2", "/", "2", "0", "1", "5">> }

DateStrings ==
    { DigitFirst(m, yy) : m \in 1..12, yy \in 0..99 }
    \cup { DigitFirstUnpadded(m, yy) : m \in 1..12, yy \in 0..9 }
    \cup { LetterFirst(m, yy) : m \in 1..12, yy \in 0..99 }
    \cup { LetterFirstFull(m, yyyy) : m \in 1..12, yyyy \in FullYears }
    \cup { upper(LetterFirst(m, 5)) : m \in 1..12 }
    \cup MalformedDates

TermStrings ==
    { s_36_months, <<" ">> \o s_36_months, s_36_months \o <<" ", "\n">>,
      <<" ", "6", "0", " ", "m", "o", "n", "t", "h", "s">>,
      <<"3", "6", "m", "o", "n", "t", "h", "s">>,
      <<"3", "6", " ", "M", "o", "n", "t", "h", "s">>,
      <<"3", "6">>, <<>>, <<"x">> }

EmpStrings ==
    { s_lt_1_year,
      <<"3", " ", "y", "e", "a", "r", "s">>,
      <<"1", "0", "+", " ", "y", "e", "a", "r", "s">>,
      <<"1", " ", "y", "e", "a", "r">>,
      <<"<", "1", " ", "y", "e", "a", "r">>,
      <<"s", "e", "l", "f">> }

RECURSIVE SeqsUpTo(_, _)
SeqsUpTo(S, n) ==
    IF n = 0 THEN {<<>>}
    ELSE LET shorter == SeqsUpTo(S, n - 1) IN
         shorter \cup { Append(q, x) : q \in shorter, x \in S }

CoerceColumns ==
    { <<Str(s)>> : s \in DateStrings \cup TermStrings }
    \cup SeqsUpTo({ Str(s) : s \in EmpStrings } \cup {NaN}, MaxRows)

\* Series.map(f) and the list comprehension of line 154, given the cells f
\* yields: the first failing cell ends the evaluation
MapResult(cells, out) ==
    IF HasErr(out)
    THEN [cells |-> cells, err |-> FirstErr(out)]
    ELSE [cells |-> out, err |-> ""]

NoTable == [cols |-> {}, dtypes |-> <<>>, rows |-> <<>>]

PipelineIdle ==
    /\ caller = NoTable
    /\ df = NoTable
    /\ aliased = FALSE
    /\ pc = "idle"
    /\ status = "idle"
    /\ err = ""
    /\ log = <<>>

CoerceInit ==
    /\ PipelineIdle
    /\ fn = "none"
    /\ arg \in CoerceColumns
    /\ res = [cells |-> <<>>, err |-> ""]

ApplyConvertDate ==
    /\ fn = "none"
    /\ fn' = "convert_date"
    /\ res' = MapResult(arg, [i \in DOMAIN arg |-> convert_date(arg[i])])
    /\ UNCHANGED <<caller, df, aliased, pc, status, err, log, arg>>

ApplyCleanLoanTerm ==
    /\ fn = "none"
    /\ fn' = "clean_loan_term_col"
    /\ res' = MapResult(arg, [i \in DOMAIN arg |-> term_value(arg[i])])
    /\ UNCHANGED <<caller, df, aliased, pc, status, err, log, arg>>

ApplyCleanEmploymentLength ==
    /\ fn = "none"
    /\ fn' = "clean_employment_length"
    /\ res' = emp_length_column(arg)
    /\ UNCHANGED <<caller, df, aliased, pc, status, err, log, arg>>

CoerceNext ==
    \/ ApplyConvertDate
    \/ ApplyCleanLoanTerm
    \/ ApplyCleanEmploymentLength

SpecCoerce == CoerceInit /\ [][CoerceNext]_vars

(***************************************************************************)
(* Tables.                                                                 *)
(***************************************************************************)
Table(cols, dtypes, rows, index) ==
    [cols |-> cols, dtypes |-> dtypes, rows |-> rows, index |-> index]

Column(t, c) == [i \in DOMAIN t.rows |-> t.rows[i][c]]

\* the dtype read_csv gives a column: object if it holds a string (or no
\* row at all), a numeric dtype otherwise
CsvDtype(cells) ==
    IF cells = <<>> \/ \E i \in DOMAIN cells : IsStr(cells[i]) THEN "object"
    ELSE IF \A i \in DOMAIN cells : IsNum(cells[i]) /\ cells[i].e = 0 THEN "int64"
         ELSE "float64"

\* df[c] = cells, with the dtype given
SetColumn(t, c, cells, dtype) ==
    [t EXCEPT !.cols = @ \cup {c},
              !.dtypes = [k \in (DOMAIN @) \cup {c} |-> IF k = c THEN dtype ELSE @[k]],
              !.rows = [i \in DOMAIN @ |->
                           [k \in (DOMAIN @[i]) \cup {c} |->
                               IF k = c THEN cells[i] ELSE @[i][k]]]]

\* df.drop(c, axis=1)
DropColumn(t, c) ==
    [t EXCEPT !.cols = @ \ {c},
              !.dtypes = [k \in (DOMAIN @) \ {c} |-> @[k]],
              !.rows = [i \in DOMAIN @ |-> [k \in (DOMAIN @[i]) \ {c} |-> @[i][k]]]]

RECURSIVE SelectSeq2(_, _, _)
SelectSeq2(rows, mask, i) ==
    IF i > Len(rows) THEN <<>>
    ELSE (IF mask[i] THEN <<rows[i]>> ELSE <<>>) \o SelectSeq2(rows, mask, i + 1)

\* df.loc[mask, :]: the rows whose mask is true, in their order
Loc(t, mask) == [t EXCEPT !.rows = SelectSeq2(t.rows, mask, 1)]

\* df.dropna(subset=[c])
dropna(t, c) == Loc(t, [i \in DOMAIN t.rows |-> ~isna(t.rows[i][c])])

\* the outcome of a stage: the table it leaves and the exception it raised
Ok(t) == [t |-> t, err |-> ""]

Raise(t, name) == [t |-> t, err |-> name]

(***************************************************************************)
(* The row filters.                                                        *)
(***************************************************************************)
s_Charged_Off == <<"C", "h", "a", "r", "g", "e", "d", " ", "O", "f", "f">>

s_Fully_Paid == <<"F", "u", "l", "l", "y", " ", "P", "a", "i", "d">>

s_INDIVIDUAL == <<"I", "N", "D", "I", "V", "I", "D", "U", "A", "L">>

drop_loans_not_complete(t) ==
    IF "loan_status" \notin t.cols THEN Raise(t, "KeyError")
    ELSE Ok(Loc(t, [i \in DOMAIN t.rows |->
                       t.rows[i]["loan_status"] \in {Str(s_Charged_Off), Str(s_Fully_Paid)}]))

drop_loan_status(t) ==
    IF "loan_status" \notin t.cols THEN Raise(t, "KeyError")
    ELSE Ok(DropColumn(t, "loan_status"))

\* Series.str.upper(): a cell that is no string gives NaN
str_upper(c) == IF IsStr(c) THEN Str(upper(c.str)) ELSE NaN

drop_joint_applicant_loans(t) ==
    IF "application_type" \notin t.cols THEN Raise(t, "KeyError")
    ELSE IF t.dtypes["application_type"] # "object" THEN Raise(t, "AttributeError")
    ELSE Ok(Loc(t, [i \in DOMAIN t.rows |->
                       str_upper(t.rows[i]["application_type"]) = Str(s_INDIVIDUAL)]))

FirstOf2010 == 12 * 2010

exclude_loans_before_2010(t) ==
    IF "issue_d" \notin t.cols THEN Raise(t, "KeyError")
    ELSE Ok(Loc(t, [i \in DOMAIN t.rows |->
                       /\ IsDate(t.rows[i]["issue_d"])
                       /\ t.rows[i]["issue_d"].date >= FirstOf2010]))

only_include_36_month_loans(t) ==
    IF "term" \notin t.cols THEN Raise(t, "KeyError")
    ELSE Ok(Loc(t, [i \in DOMAIN t.rows |-> t.rows[i]["term"] = Num(36)]))

(***************************************************************************)
(* The column coercions, on a table.                                       *)
(***************************************************************************)
s_nan == <<"N", "A", "N">>

\* astype('float32') of a string: blanks around an optional sign, digits and
\* at most one point; 'nan' in any case is NaN (exponents and infinities are
\* left out of the model)
ParseFloat(s) ==
    LET t == strip(s)
        neg == t # <<>> /\ Head(t) = "-"
        u == IF t # <<>> /\ Head(t) \in {"+", "-"} THEN Tail(t) ELSE t
        dots == { i \in DOMAIN u : u[i] = "." }
        whole == IF dots = {} THEN u ELSE SubSeq(u, 1, (CHOOSE i \in dots : TRUE) - 1)
        frac == IF dots = {} THEN <<>>
                ELSE rstrip(SubSeq(u, (CHOOSE i \in dots : TRUE) + 1, Len(u)), {"0"})
    IN
    IF upper(u) = s_nan THEN NaN
    ELSE IF /\ Cardinality(dots) <= 1
            /\ Len(u) > Cardinality(dots)
            /\ \A i \in DOMAIN u : isdigit(u[i]) \/ u[i] = "."
         THEN [num |-> (IF neg THEN -1 ELSE 1) * ToInt(whole \o frac), e |-> Len(frac)]
         ELSE Err("ValueError")

\* one cell of a rate column: .str.rstrip('%') then astype('float32')
rate_value(c) == IF IsStr(c) THEN ParseFloat(rstrip(c.str, {"%"})) ELSE NaN

fix_rate_col(t, col) ==
    IF col \notin t.cols THEN Raise(t, "KeyError")
    ELSE IF t.dtypes[col] # "object" THEN Raise(t, "AttributeError")
    ELSE LET cells == [i \in DOMAIN t.rows |-> rate_value(t.rows[i][col])] IN
         IF HasErr(cells) THEN Raise(t, FirstErr(cells))
         ELSE Ok(SetColumn(t, col, cells, "float32"))

fix_rate_cols(t) ==
    LET first == fix_rate_col(t, "int_rate") IN
    IF first.err # "" THEN first ELSE fix_rate_col(first.t, "revol_util")

dropna_issue_d(t) ==
    IF "issue_d" \notin t.cols THEN Raise(t, "KeyError") ELSE Ok(dropna(t, "issue_d"))

\* df[col] = df[col].map(convert_date)
map_convert_date(t, col) ==
    IF col \notin t.cols THEN Raise(t, "KeyError")
    ELSE LET cells == [i \in DOMAIN t.rows |-> convert_date(t.rows[i][col])] IN
         IF HasErr(cells) THEN Raise(t, FirstErr(cells))
         ELSE Ok(SetColumn(t, col, cells, "datetime64[ns]"))

fix_date_cols(t) ==
    LET a == dropna_issue_d(t) IN
    IF a.err # "" THEN a ELSE
    LET b == map_convert_date(a.t, "issue_d") IN
    IF b.err # "" THEN b ELSE
    LET c == map_convert_date(b.t, "earliest_cr_line") IN
    IF c.err # "" THEN c ELSE
    LET d == IF "last_pymnt_d" \in c.t.cols
             THEN Ok(dropna(c.t, "last_pymnt_d")) ELSE Raise(c.t, "KeyError") IN
    IF d.err # "" THEN d ELSE
    map_convert_date(d.t, "last_pymnt_d")

\* the orders df.sort_values(by='issue_d') may leave the rows in: ascending,
\* missing dates last; rows with equal dates in any order (the default sort
\* kind is not stable)
SortKeyBefore(a, b) ==
    \/ isna(b)
    \/ IsDate(a) /\ IsDate(b) /\ a.date <= b.date

SortedOrders(t) ==
    LET n == Len(t.rows) IN
    { p \in [1..n -> 1..n] :
        /\ \A i, j \in 1..n : i # j => p[i] # p[j]
        /\ \A i, j \in 1..n :
             i < j => SortKeyBefore(t.rows[p[i]]["issue_d"], t.rows[p[j]]["issue_d"]) }

Permute(t, p) == [t EXCEPT !.rows = [i \in DOMAIN @ |-> @[p[i]]]]

clean_loan_term_col(t) ==
    IF "term" \notin t.cols THEN Raise(t, "KeyError")
    ELSE LET cells == [i \in DOMAIN t.rows |-> term_value(t.rows[i]["term"])] IN
         IF HasErr(cells) THEN Raise(t, FirstErr(cells))
         ELSE Ok(SetColumn(t, "term", cells, "uint8"))

clean_employment_length(t) ==
    IF "emp_length" \notin t.cols THEN Raise(t, "KeyError")
    ELSE LET old == Column(t, "emp_length")
             replaced == [i \in DOMAIN old |-> emp_replace(old[i])]
             t1 == SetColumn(t, "emp_length", replaced, ListDtype(replaced))
             out == emp_length_column(old)
         IN IF out.err # "" THEN Raise(t1, out.err)
            ELSE Ok(SetColumn(t1, "emp_length", out.cells, "float32"))

(***************************************************************************)
(* The missing-data stages.                                                *)
(***************************************************************************)
HasMissing(t, c) == \E i \in DOMAIN t.rows : isna(t.rows[i][c])

MissingName(c) == c \o "_missing"

RECURSIVE AddFlags(_, _)
AddFlags(t, todo) ==
    IF todo = {} THEN t
    ELSE LET c == CHOOSE x \in todo : TRUE IN
         AddFlags(SetColumn(t, MissingName(c),
                      [i \in DOMAIN t.rows |-> [bool |-> isna(t.rows[i][c])]], "bool"),
                  todo \ {c})

create_missing_data_boolean_columns(t) ==
    Ok(AddFlags(t, { c \in t.cols : HasMissing(t, c) }))

Sentinel == -99

fillna(c, value) == IF isna(c) THEN Num(value) ELSE c

\* line 240 without the assignment: fillna returns a new column
fill_nas_unassigned(t, value) == Ok(t)

fill_nas(t, value) ==
    Ok([t EXCEPT !.rows = [i \in DOMAIN @ |->
           [c \in DOMAIN @[i] |->
               IF c \in t.cols THEN fillna(@[i][c], value) ELSE @[i][c]]]])

(***************************************************************************)
(* The derived-feature generators of src.feature_engineering, as the       *)
(* pipeline sees them: each takes the table and returns a table with the   *)
(* same rows and the modelled columns unchanged.                           *)
(***************************************************************************)
enrich(name, t) == Ok(t)

(***************************************************************************)
(* Final column pruning and the key.                                       *)
(***************************************************************************)
drop_cols ==
    << "zip_code", "total_rec_prncp", "total_rec_int", "earliest_cr_line", "term",
       "last_pymnt_d", "total_pymnt_inv", "application_type" >>

RECURSIVE DropEach(_, _)
DropEach(t, todo) ==
    IF todo = <<>> THEN Ok(t)
    ELSE IF Head(todo) \notin t.cols THEN Raise(t, "KeyError")
         ELSE DropEach(DropColumn(t, Head(todo)), Tail(todo))

drop_unnecessary_cols(t) == DropEach(t, drop_cols)

\* df.set_index('id', inplace=True): id leaves the columns and labels the
\* rows; verify_integrity is left at its default, False, so equal labels
\* are accepted
set_index(t, c) ==
    IF c \notin t.cols THEN Raise(t, "KeyError")
    ELSE Ok([t EXCEPT !.cols = @ \ {c},
                      !.dtypes = [k \in (DOMAIN @) \ {c} |-> @[k]],
                      !.index = c])

(***************************************************************************)
(* The tables the loader hands over: up to MaxRows rows, each a variant of *)
(* one well-formed loan; files are concatenated as they are, so two rows   *)
(* may carry the same id.  Beside its columns a row carries "_row", its     *)
(* position in the loader's table: no stage reads or writes it, it tells   *)
(* which loaded row a row of a later table is.                             *)
(***************************************************************************)
AllCols ==
    { "id", "loan_status", "application_type", "int_rate", "revol_util", "term",
      "emp_length", "issue_d", "earliest_cr_line", "last_pymnt_d", "zip_code",
      "total_rec_prncp", "total_rec_int", "total_pymnt_inv" }

BaseLoan ==
    [ id |-> Num(1),
      loan_status |-> Str(s_Fully_Paid),
      application_type |-> Str(<<"I", "n", "d", "i", "v", "i", "d", "u", "a", "l">>),
      int_rate |-> Str(<<"1", "6", ".", "3", "7", "%">>),
      revol_util |-> Str(<<"5", "0", "%">>),
      term |-> Str(<<" ", "3", "6", " ", "m", "o", "n", "t", "h", "s">>),
      emp_length |-> Str(<<"3", " ", "y", "e", "a", "r", "s">>),
      issue_d |-> Str(<<"D", "e", "c", "-", "2", "0", "1", "5">>),
      earliest_cr_line |-> Str(<<"J", "a", "n", "-", "0", "1">>),
      last_pymnt_d |-> Str(<<"J", "a", "n", "-", "2", "0", "1", "8">>),
      zip_code |-> Str(<<"9", "4", "0", "x", "x">>),
      total_rec_prncp |-> Num(1000),
      total_rec_int |-> Num(100),
      total_pymnt_inv |-> Num(1100) ]

LoanVariants ==
    { BaseLoan,
      [BaseLoan EXCEPT !.loan_status = Str(<<"C", "u", "r", "r", "e", "n", "t">>)],
      [BaseLoan EXCEPT !.loan_status = Str(s_Charged_Off),
                       !.application_type = Str(s_INDIVIDUAL)],
      [BaseLoan EXCEPT !.application_type = Str(<<"J", "o", "i", "n", "t", " ", "A", "p", "p">>)],
      [BaseLoan EXCEPT !.term = Str(<<" ", "6", "0", " ", "m", "o", "n", "t", "h", "s">>)],
      [BaseLoan EXCEPT !.emp_length = Str(s_lt_1_year),
                       !.issue_d = Str(<<"J", "a", "n", "-", "2", "0", "1", "6">>)],
      [BaseLoan EXCEPT !.emp_length = NaN, !.revol_util = NaN],
      [BaseLoan EXCEPT !.issue_d = Str(<<"9", "-", "D", "e", "c">>)],
      [BaseLoan EXCEPT !.issue_d = NaN],
      [BaseLoan EXCEPT !.issue_d = Str(<<"N", "a", "T">>)],
      [BaseLoan EXCEPT !.earliest_cr_line = NaN],
      [BaseLoan EXCEPT !.last_pymnt_d = NaN],
      [BaseLoan EXCEPT !.last_pymnt_d = Str(<<"D", "e", "c", "-", "2", "0", "1">>)],
      [BaseLoan EXCEPT !.int_rate = Str(<<"n", ".", "a", ".", "%">>)] }

\* the ids of n rows, up to renaming: row 1 has id 1, and each later row
\* repeats an earlier id or takes the next one
IdPatterns(n) ==
    { ids \in [1..n -> 1..n] :
        \A i \in 1..n : ids[i] <= 1 + Cardinality({ ids[j] : j \in 1..(i - 1) })
                        /\ (i = 1 => ids[i] = 1)
                        /\ \A k \in 1..(ids[i] - 1) : \E j \in 1..(i - 1) : ids[j] = k }

InputTable(loans, ids) ==
    LET n == Len(loans)
        rows == [i \in 1..n |->
                    [c \in AllCols \cup {"_row"} |->
                        IF c = "_row" THEN Num(i)
                        ELSE IF c = "id" THEN Num(ids[i])
                        ELSE loans[i][c]]]
    IN Table(AllCols,
             [c \in AllCols |-> CsvDtype([i \in 1..n |-> rows[i][c]])],
             rows,
             "")

(***************************************************************************)
(* clean_and_prepare_raw_data_for_model: one action per statement of lines *)
(* 298-321.  Pipeline is the order of the statements; pc indexes it.       *)
(***************************************************************************)
\* the statements with the 36-month filter ahead of the term coercion
Pipeline_filter_before_coercion ==
    << "drop_loan_status", "drop_joint_applicant_loans", "fix_rate_cols",
       "dropna_issue_d", "fix_date_cols", "sort_values",
       "exclude_loans_before_2010", "only_include_36_month_loans",
       "clean_loan_term_col", "clean_employment_length",
       "create_missing_data_boolean_columns", "fill_nas",
       "add_supplemental_rate_data", "create_rate_difference_cols",
       "create_months_since_earliest_cl_col", "change_data_types",
       "create_dummy_cols", "drop_unnecessary_cols", "set_index" >>

Pipeline ==
    << "drop_loan_status", "drop_joint_applicant_loans", "fix_rate_cols",
       "dropna_issue_d", "fix_date_cols", "sort_values",
       "exclude_loans_before_2010", "clean_loan_term_col",
       "only_include_36_month_loans", "clean_employment_length",
       "create_missing_data_boolean_columns", "fill_nas",
       "add_supplemental_rate_data", "create_rate_difference_cols",
       "create_months_since_earliest_cl_col", "change_data_types",
       "create_dummy_cols", "drop_unnecessary_cols", "set_index" >>

CoerceIdle ==
    /\ fn = "idle"
    /\ arg = <<>>
    /\ res = [cells |-> <<>>, err |-> ""]

Init ==
    /\ \E n \in 0..MaxRows :
         \E loans \in [1..n -> LoanVariants], ids \in IdPatterns(n) :
             caller = InputTable(loans, ids)
    /\ df = caller
    /\ aliased = TRUE
    /\ pc = 1
    /\ status = "running"
    /\ err = ""
    /\ log = <<>>
    /\ CoerceIdle

At(stage) ==
    /\ status = "running"
    /\ pc \in DOMAIN Pipeline
    /\ Pipeline[pc] = stage

Finish(stage, out) ==
    /\ log' = Append(log, stage)
    /\ err' = out.err
    /\ status' = IF out.err = "" THEN "running" ELSE "failed"
    /\ pc' = IF out.err = "" THEN pc + 1 ELSE pc
    /\ UNCHANGED <<fn, arg, res>>

\* df = stage(df) for a stage that changes the table it is given and
\* returns that same table
Rebind_same_object(stage, out) ==
    /\ Finish(stage, out)
    /\ df' = out.t
    /\ aliased' = aliased
    /\ caller' = IF aliased THEN out.t ELSE caller

\* df = stage(df): the stage returns a new table and df is rebound to it;
\* if the stage raises, df stays as it was
Rebind(stage, out) ==
    /\ Finish(stage, out)
    /\ df' = IF out.err = "" THEN out.t ELSE df
    /\ aliased' = IF out.err = "" THEN FALSE ELSE aliased
    /\ caller' = caller

\* the stage changes the object df names, which the caller sees if it is
\* the caller's own table; a stage that raises leaves what it had done
InPlace(stage, out) ==
    /\ Finish(stage, out)
    /\ df' = out.t
    /\ aliased' = aliased
    /\ caller' = IF aliased THEN out.t ELSE caller

DropLoanStatus ==
    /\ At("drop_loan_status")
    /\ Rebind("drop_loan_status", drop_loan_status(df))

DropJointApplicantLoans ==
    /\ At("drop_joint_applicant_loans")
    /\ Rebind("drop_joint_applicant_loans", drop_joint_applicant_loans(df))

FixRateCols ==
    /\ At("fix_rate_cols")
    /\ InPlace("fix_rate_cols", fix_rate_cols(df))

DropnaIssueD ==
    /\ At("dropna_issue_d")
    /\ InPlace("dropna_issue_d", dropna_issue_d(df))

FixDateCols ==
    /\ At("fix_date_cols")
    /\ InPlace("fix_date_cols", fix_date_cols(df))

SortValues ==
    /\ At("sort_values")
    /\ IF "issue_d" \notin df.cols
       THEN InPlace("sort_values", Raise(df, "KeyError"))
       ELSE \E p \in SortedOrders(df) : InPlace("sort_values", Ok(Permute(df, p)))

ExcludeLoansBefore2010 ==
    /\ At("exclude_loans_before_2010")
    /\ Rebind("exclude_loans_before_2010", exclude_loans_before_2010(df))

CleanLoanTermCol ==
    /\ At("clean_loan_term_col")
    /\ InPlace("clean_loan_term_col", clean_loan_term_col(df))

OnlyInclude36MonthLoans ==
    /\ At("only_include_36_month_loans")
    /\ Rebind("only_include_36_month_loans", only_include_36_month_loans(df))

CleanEmploymentLength ==
    /\ At("clean_employment_length")
    /\ InPlace("clean_employment_length", clean_employment_length(df))

CreateMissingDataBooleanColumns ==
    /\ At("create_missing_data_boolean_columns")
    /\ Rebind("create_missing_data_boolean_columns",
              create_missing_data_boolean_columns(df))

FillNas ==
    /\ At("fill_nas")
    /\ InPlace("fill_nas", fill_nas(df, Sentinel))

EnrichmentStages ==
    { "add_supplemental_rate_data", "create_rate_difference_cols",
      "create_months_since_earliest_cl_col", "change_data_types",
      "create_dummy_cols" }

Enrich ==
    /\ status = "running"
    /\ pc \in DOMAIN Pipeline
    /\ Pipeline[pc] \in EnrichmentStages
    /\ Rebind(Pipeline[pc], enrich(Pipeline[pc], df))

DropUnnecessaryCols ==
    /\ At("drop_unnecessary_cols")
    /\ InPlace("drop_unnecessary_cols", drop_unnecessary_cols(df))

SetIndex ==
    /\ At("set_index")
    /\ InPlace("set_index", set_index(df, "id"))

Return ==
    /\ status = "running"
    /\ pc = Len(Pipeline) + 1
    /\ status' = "returned"
    /\ UNCHANGED <<caller, df, aliased, pc, err, log, fn, arg, res>>

Next ==
    \/ DropLoanStatus
    \/ DropJointApplicantLoans
    \/ FixRateCols
    \/ DropnaIssueD
    \/ FixDateCols
    \/ SortValues
    \/ ExcludeLoansBefore2010
    \/ CleanLoanTermCol
    \/ OnlyInclude36MonthLoans
    \/ CleanEmploymentLength
    \/ CreateMissingDataBooleanColumns
    \/ FillNas
    \/ Enrich
    \/ DropUnnecessaryCols
    \/ SetIndex
    \/ Return

Spec == Init /\ [][Next]_vars

(***************************************************************************)
(* The pipeline on the tables of a loader whose column list leaves a       *)
(* column out (usecols=columns, lines 34-35 and 75-76), and on loans with  *)
(* a field some stage rejects.                                             *)
(***************************************************************************)
\* the table read with the columns `cols` only
Usecols(t, cols) ==
    [t EXCEPT !.cols = @ \cap cols,
              !.dtypes = [k \in (DOMAIN @) \cap cols |-> @[k]],
              !.rows = [i \in DOMAIN @ |->
                           [k \in (DOMAIN @[i]) \cap (cols \cup {"_row"}) |-> @[i][k]]]]

\* the columns a misconfigured column list may leave out, one at a time
AbsentColumns ==
    { {}, {"loan_status"}, {"application_type"}, {"zip_code"}, {"total_rec_int"} }

\* loans that reach the late stages or make a coercion raise, and a loan
\* whose term is missing
AbortLoans ==
    { l \in LoanVariants :
        /\ \A c \in {"loan_status", "term", "issue_d"} : l[c] = BaseLoan[c]
        /\ l["last_pymnt_d"] # NaN }
    \cup { [BaseLoan EXCEPT !.term = NaN] }

AbortInit ==
    /\ \E n \in 0..MaxRows :
         \E loans \in [1..n -> AbortLoans], ids \in IdPatterns(n),
            absent \in AbsentColumns :
             caller = Usecols(InputTable(loans, ids), AllCols \ absent)
    /\ df = caller
    /\ aliased = TRUE
    /\ pc = 1
    /\ status = "running"
    /\ err = ""
    /\ log = <<>>
    /\ CoerceIdle

SpecAbort == AbortInit /\ [][Next]_vars

(***************************************************************************)
(* The row filters, called on their own.  The tables they are given are    *)
(* loaded tables whose date and term columns have been coerced, the state  *)
(* the cutoff and term filters compare against; loan_status and            *)
(* application_type are as loaded.  fn is "loaded", then "none" once the   *)
(* table is coerced, then the name of the filter called; caller is the     *)
(* table object passed to the filter, df the table it returns.             *)
(***************************************************************************)
FilterNames ==
    { "drop_loans_not_complete", "drop_joint_applicant_loans",
      "exclude_loans_before_2010", "only_include_36_month_loans" }

\* a filter that removes the rejected rows from the table it is given
\* (df.drop(df.index[~mask], inplace=True)) and returns that table
FilterCall_inplace(name, t) ==
    LET out == CASE name = "drop_loans_not_complete" -> drop_loans_not_complete(t)
                 [] name = "drop_joint_applicant_loans" -> drop_joint_applicant_loans(t)
                 [] name = "exclude_loans_before_2010" -> exclude_loans_before_2010(t)
                 [] name = "only_include_36_month_loans" -> only_include_36_month_loans(t)
    IN [passed |-> out.t, returned |-> out.t, err |-> out.err]

\* the call name(t): df.loc[mask, :] builds a new table from the selected
\* rows, so the table passed in is after the call what it was before it
FilterCall(name, t) ==
    LET out == CASE name = "drop_loans_not_complete" -> drop_loans_not_complete(t)
                 [] name = "drop_joint_applicant_loans" -> drop_joint_applicant_loans(t)
                 [] name = "exclude_loans_before_2010" -> exclude_loans_before_2010(t)
                 [] name = "only_include_36_month_loans" -> only_include_36_month_loans(t)
    IN [passed |-> t, returned |-> out.t, err |-> out.err]

\* the loans that differ from the base loan in a column a filter or a
\* coercion ahead of it reads
FilterLoans ==
    { l \in LoanVariants :
        \A c \in {"int_rate", "revol_util", "earliest_cr_line", "last_pymnt_d"} :
            l[c] = BaseLoan[c] }

\* the date columns and the term column coerced, as lines 302 and 305 do
ThenCleanLoanTermCol(dated) ==
    IF dated.err # "" THEN dated ELSE clean_loan_term_col(dated.t)

CoerceDatesAndTerm(t) == ThenCleanLoanTermCol(fix_date_cols(t))

\* the filters are given the table `out` holds
Prepared(out) ==
    /\ out.err = ""
    /\ caller' = out.t
    /\ df' = out.t

FilterInit ==
    /\ \E n \in 0..MaxRows :
         \E loans \in [1..n -> FilterLoans], ids \in IdPatterns(n) :
             caller = InputTable(loans, ids)
    /\ df = caller
    /\ aliased = TRUE
    /\ pc = 0
    /\ status = "idle"
    /\ err = ""
    /\ log = <<>>
    /\ fn = "loaded"
    /\ arg = <<>>
    /\ res = [cells |-> <<>>, err |-> ""]

\* the loaded table is coerced; a table a coercion rejects is given to no
\* filter
PrepareForFilters ==
    /\ fn = "loaded"
    /\ status = "idle"
    /\ Prepared(CoerceDatesAndTerm(caller))
    /\ fn' = "none"
    /\ UNCHANGED <<aliased, pc, status, err, log, arg, res>>

ApplyFilter(name) ==
    /\ fn = "none"
    /\ status = "idle"
    /\ LET call == FilterCall(name, caller) IN
         /\ fn' = name
         /\ caller' = call.passed
         /\ df' = call.returned
         /\ aliased' = FALSE
         /\ err' = call.err
    /\ UNCHANGED <<pc, status, log, arg, res>>

ApplyDropLoansNotComplete == ApplyFilter("drop_loans_not_complete")

ApplyDropJointApplicantLoans == ApplyFilter("drop_joint_applicant_loans")

ApplyExcludeLoansBefore2010 == ApplyFilter("exclude_loans_before_2010")

ApplyOnlyInclude36MonthLoans == ApplyFilter("only_include_36_month_loans")

FilterNext ==
    \/ PrepareForFilters
    \/ ApplyDropLoansNotComplete
    \/ ApplyDropJointApplicantLoans
    \/ ApplyExcludeLoansBefore2010
    \/ ApplyOnlyInclude36MonthLoans

SpecFilter == FilterInit /\ [][FilterNext]_vars

(***************************************************************************)
(* Properties.                                                             *)
(***************************************************************************)
Ran(stage) == \E k \in DOMAIN log : log[k] = stage

Ended == status \in {"returned", "failed"}

\* the loaded row that row i of the working table comes from
Loaded(i) == caller.rows[df.rows[i]["_row"].num]

CompletedStatuses == {Str(s_Charged_Off), Str(s_Fully_Paid)}

\* C1: every row of the returned table had an original loan_status of
\* "Charged Off" or "Fully Paid".
C1_OnlyCompletedLoansReturned ==
    status = "returned" =>
        \A i \in DOMAIN df.rows : Loaded(i)["loan_status"] \in CompletedStatuses

\* a date cell the parser accepts, and the month it stands for
ParsesAsDate(c) == IsStr(c) /\ IsDate(convert_date(c))

IssuedBefore2010(r) ==
    ParsesAsDate(r["issue_d"]) /\ convert_date(r["issue_d"]).date < FirstOf2010

s_60_months == <<"6", "0", " ", "m", "o", "n", "t", "h", "s">>

\* a loaded row every coercion accepts
WellFormedLoan(r) ==
    /\ \A c \in {"int_rate", "revol_util"} : ~IsErr(rate_value(r[c]))
    /\ \A c \in {"issue_d", "earliest_cr_line", "last_pymnt_d"} : ParsesAsDate(r[c])
    /\ IsStr(r["term"])
    /\ IsStr(r["application_type"])

\* C2: every returned row is an individual 36-month loan issued in 2010 or
\* later, and so an input of well-formed loans all issued before 2010, or
\* all of 60 months, ends with an empty table returned.
C2_FiltersAndEmptyOutput ==
    /\ status = "returned" =>
          \A i \in DOMAIN df.rows :
              /\ upper(Loaded(i)["application_type"].str) = s_INDIVIDUAL
              /\ strip(Loaded(i)["term"].str) = s_36_months
              /\ ~IssuedBefore2010(Loaded(i))
    /\ ( /\ Ended
         /\ caller.rows # <<>>
         /\ \A i \in DOMAIN caller.rows : WellFormedLoan(caller.rows[i])
         /\ \/ \A i \in DOMAIN caller.rows : IssuedBefore2010(caller.rows[i])
            \/ \A i \in DOMAIN caller.rows :
                   strip(caller.rows[i]["term"].str) = s_60_months )
       => status = "returned" /\ df.rows = <<>>

\* C3: the returned table has no two rows with the same id.
C3_ReturnedIdsUnique ==
    status = "returned" =>
        \A i, j \in DOMAIN df.rows : i # j => df.rows[i]["id"] # df.rows[j]["id"]

\* C4: when fill_nas runs, every column with a missing value has its
\* <col>_missing column, true exactly where the column is missing; after it
\* no cell is missing, a missing cell holds the sentinel and is flagged,
\* and every other cell keeps its value.
C4_FlagsThenSentinel ==
    [][ At("fill_nas") =>
          /\ status' = "running"
          /\ df'.cols = df.cols
          /\ Len(df'.rows) = Len(df.rows)
          /\ \A c \in df.cols :
                HasMissing(df, c) =>
                    /\ MissingName(c) \in df'.cols
                    /\ \A i \in DOMAIN df.rows :
                          df'.rows[i][MissingName(c)] = [bool |-> isna(df.rows[i][c])]
          /\ \A c \in df.cols :
                \A i \in DOMAIN df.rows :
                    /\ ~isna(df'.rows[i][c])
                    /\ df'.rows[i][c] =
                          IF isna(df.rows[i][c]) THEN Num(Sentinel) ELSE df.rows[i][c]
      ]_vars

C4_Witness ==
    /\ Ran("fill_nas")
    /\ status = "running"
    /\ "emp_length_missing" \in df.cols
    /\ \E i, j \in DOMAIN df.rows :
          /\ df.rows[i]["emp_length"] = Num(Sentinel)
          /\ df.rows[i]["emp_length_missing"] = [bool |-> TRUE]
          /\ df.rows[j]["emp_length"] = Num(3)
          /\ df.rows[j]["emp_length_missing"] = [bool |-> FALSE]

\* the value the claim gives an emp_length cell
EmpLengthExpected(c) ==
    IF c = Str(s_lt_1_year) THEN Num(0)
    ELSE IF IsStr(c) /\ \E k \in DOMAIN c.str : isdigit(c.str[k])
         THEN Num(ToInt(FirstDigitRun(c.str)))
         ELSE NaN

\* C5: a column clean_employment_length has converted holds 0 for "< 1 year",
\* for any other string the number of its first run of digits, and missing
\* for a missing value or a string without a digit.
C5_EmploymentLengthMapping ==
    (fn = "clean_employment_length" /\ res.err = "") =>
        /\ Len(res.cells) = Len(arg)
        /\ \A i \in DOMAIN arg : res.cells[i] = EmpLengthExpected(arg[i])

\* C6: for every month and two-digit year, "yy-Mon", "y-Mon" (yy < 10) and
\* "Mon-yy" convert to the same month of the same year, and "Mon-YYYY" to
\* month Mon of year YYYY, by the second format, the first having failed.
C6_DateShapesAgree ==
    (fn = "convert_date" /\ Len(arg) = 1 /\ IsStr(arg[1])) =>
        \A m \in 1..12 :
            /\ \A yy \in 0..99 :
                  ( \/ arg[1].str = DigitFirst(m, yy)
                    \/ arg[1].str = LetterFirst(m, yy)
                    \/ (yy < 10 /\ arg[1].str = DigitFirstUnpadded(m, yy)) )
                  => /\ res.err = ""
                     /\ IsDate(res.cells[1])
                     /\ res.cells[1].date % 12 = m - 1
                     /\ (res.cells[1].date \div 12) % 100 = yy
                     /\ res.cells[1] = convert_date(Str(DigitFirst(m, yy)))
                     /\ res.cells[1] = convert_date(Str(LetterFirst(m, yy)))
            /\ \A yyyy \in FullYears :
                  (arg[1].str = LetterFirstFull(m, yyyy) /\ InTimestampRange(yyyy, m))
                  => /\ res.err = ""
                     /\ res.cells[1] = Date(yyyy, m)
                     /\ IsErr(to_datetime(arg[1].str, Fmt_b_y))

C6_Witness ==
    /\ fn = "convert_date"
    /\ arg = <<Str(<<"5", "-", "D", "e", "c">>)>>
    /\ res = [cells |-> <<Date(2005, 12)>>, err |-> ""]
    /\ convert_date(Str(<<"D", "e", "c", "-", "0", "5">>)) = Date(2005, 12)
    /\ convert_date(Str(<<"D", "e", "c", "-", "2", "0", "1", "5">>)) = Date(2015, 12)

IsMonthAbbr(w) == \E m \in 1..12 : upper(w) = upper(MonthAbbr[m])

\* the two shapes of a date string: yy-Mon or y-Mon, and Mon-yy or Mon-yyyy
AcceptedDateShape(s) ==
    \/ /\ Len(s) \in {5, 6}
       /\ AllDigits(SubSeq(s, 1, Len(s) - 4))
       /\ s[Len(s) - 3] = "-"
       /\ IsMonthAbbr(SubSeq(s, Len(s) - 2, Len(s)))
    \/ /\ Len(s) \in {6, 8}
       /\ IsMonthAbbr(SubSeq(s, 1, 3))
       /\ s[4] = "-"
       /\ AllDigits(SubSeq(s, 5, Len(s)))

DateCols == {"issue_d", "earliest_cr_line", "last_pymnt_d"}

\* the loaded rows whose dates fix_date_cols coerces
ReachesDateCoercion(r) ==
    /\ str_upper(r["application_type"]) = Str(s_INDIVIDUAL)
    /\ ~isna(r["issue_d"])

\* C7: once fix_date_cols has run on a table holding a date string of
\* neither accepted shape, the run has failed.
C7_BadDateStringFails ==
    ( /\ Ran("fix_date_cols")
      /\ \E i \in DOMAIN caller.rows, c \in DateCols :
            /\ ReachesDateCoercion(caller.rows[i])
            /\ IsStr(caller.rows[i][c])
            /\ ~AcceptedDateShape(caller.rows[i][c].str) )
    => status = "failed"

\* s with the whitespace at both ends removed is t
TrimsTo(s, t) ==
    \E i \in 1..(Len(s) + 1), j \in 0..Len(s) :
        /\ SubSeq(s, i, j) = t
        /\ \A k \in 1..Len(s) : (k < i \/ k > j) => s[k] \in Whitespace

\* C8: clean_loan_term_col maps a term string to 36 if it is "36 months"
\* once trimmed and to 60 otherwise, without error.
C8_TermIs36Or60 ==
    (fn = "clean_loan_term_col" /\ \A i \in DOMAIN arg : IsStr(arg[i])) =>
        /\ res.err = ""
        /\ Len(res.cells) = Len(arg)
        /\ \A i \in DOMAIN arg :
              /\ res.cells[i] \in {Num(36), Num(60)}
              /\ res.cells[i] = Num(36) <=> TrimsTo(arg[i].str, s_36_months)

C8_Witness ==
    /\ fn = "clean_loan_term_col"
    /\ arg = <<Str(<<"3", "6", "m", "o", "n", "t", "h", "s">>)>>
    /\ res = [cells |-> <<Num(60)>>, err |-> ""]
    /\ term_value(Str(<<" ", "3", "6", " ", "m", "o", "n", "t", "h", "s">>)) = Num(36)

Count(stage) == Cardinality({ k \in DOMAIN log : log[k] = stage })

Before(a, b) ==
    \A k \in DOMAIN log : log[k] = b => \E j \in 1..(k - 1) : log[j] = a

Coercions ==
    {"fix_rate_cols", "fix_date_cols", "clean_loan_term_col", "clean_employment_length"}

\* C9: no stage runs twice and a returned run has run each coercion once;
\* dates are coerced before the 2010 filter, terms before the 36-month
\* filter, flags are made before imputation, and the enrichment calls come
\* after imputation and before column pruning and the setting of the key.
C9_StageOrder ==
    /\ \A k \in DOMAIN log : Count(log[k]) = 1
    /\ status = "returned" => \A c \in Coercions : Count(c) = 1
    /\ Before("fix_date_cols", "exclude_loans_before_2010")
    /\ Before("clean_loan_term_col", "only_include_36_month_loans")
    /\ Before("create_missing_data_boolean_columns", "fill_nas")
    /\ \A e \in EnrichmentStages :
          /\ Before("fill_nas", e)
          /\ Before(e, "drop_unnecessary_cols")
          /\ Before(e, "set_index")
          /\ status = "returned" => Count(e) = 1
    /\ Before("drop_unnecessary_cols", "set_index")

C9_Witness ==
    /\ status = "returned"
    /\ df.rows # <<>>
    /\ Ran("set_index")
    /\ \A c \in Coercions : Ran(c)

RowIds(rows) == [i \in DOMAIN rows |-> rows[i]["_row"]]

\* C10: fix_date_cols removes exactly the rows whose issue_d or
\* last_pymnt_d is missing, and a missing earliest_cr_line neither removes
\* a row nor makes the stage fail: unless a kept row holds a date string
\* that does not parse, the stage succeeds and leaves the kept rows.
C10_DropsOnlyMissingIssueOrPayment ==
    [][ At("fix_date_cols") =>
          LET keep == [i \in DOMAIN df.rows |->
                          /\ ~isna(df.rows[i]["issue_d"])
                          /\ ~isna(df.rows[i]["last_pymnt_d"])]
              unparseable ==
                  \E i \in DOMAIN df.rows, c \in DateCols :
                      /\ keep[i]
                      /\ IsStr(df.rows[i][c])
                      /\ IsErr(convert_date(df.rows[i][c]))
          IN ~unparseable =>
                /\ status' = "running"
                /\ RowIds(df'.rows) = RowIds(SelectSeq2(df.rows, keep, 1))
      ]_vars

\* what each filter keeps, as its documentation states it
Selects(name, r) ==
    CASE name = "drop_loans_not_complete" ->
            r["loan_status"] \in CompletedStatuses
      [] name = "drop_joint_applicant_loans" ->
            IsStr(r["application_type"]) /\ upper(r["application_type"].str) = s_INDIVIDUAL
      [] name = "exclude_loans_before_2010" ->
            IsDate(r["issue_d"]) /\ r["issue_d"].date >= 12 * 2010
      [] name = "only_include_36_month_loans" ->
            r["term"] = Num(36)

\* C11: a call of any of the four row filters leaves the table passed in
\* with the rows, columns and cells it had, and returns a table with the
\* same columns holding exactly the rows that satisfy the filter's
\* predicate, each as it was and in the order they had.
C11_FiltersNonDestructive ==
    [][ (fn = "none" /\ fn' # fn) =>
          /\ fn' \in FilterNames
          /\ err' = ""
          /\ caller' = caller
          /\ df'.cols = caller.cols
          /\ df'.dtypes = caller.dtypes
          /\ \A i \in DOMAIN df'.rows :
                \E j \in DOMAIN caller.rows : df'.rows[i] = caller.rows[j]
          /\ \A j \in DOMAIN caller.rows :
                Selects(fn', caller.rows[j])
                    <=> \E i \in DOMAIN df'.rows : df'.rows[i] = caller.rows[j]
          /\ \A i, k \in DOMAIN df'.rows :
                i < k => df'.rows[i]["_row"].num < df'.rows[k]["_row"].num
      ]_vars

C11_Witness ==
    /\ fn = "exclude_loans_before_2010"
    /\ Len(caller.rows) = 2
    /\ caller.rows[1]["issue_d"] = Date(2009, 12)
    /\ caller.rows[2]["issue_d"] = Date(2015, 12)
    /\ df.rows = <<caller.rows[2]>>

\* a loaded table some stage must reject: a required column is absent, or
\* a loan of an individual has a rate that is no number
Rejected(t) ==
    \/ ~(AllCols \subseteq t.cols)
    \/ \E i \in DOMAIN t.rows :
          /\ str_upper(t.rows[i]["application_type"]) = Str(s_INDIVIDUAL)
          /\ \E c \in {"int_rate", "revol_util"} : IsErr(rate_value(t.rows[i][c]))

\* C12: a stage that raises ends the run as failed with its exception, it
\* being the last stage run; nothing runs after a failure; a table is
\* returned only when every stage has run without an exception, never for
\* a table lacking a required column or holding an unparseable rate; and
\* no step of the run changes the table the caller passed in.
C12_FailureAbortsAndSparesCaller ==
    [][ /\ status = "running"
        /\ caller' = caller
        /\ (status' = "failed") <=> (err' # "")
        /\ status' = "failed" =>
              /\ log' = Append(log, Pipeline[pc])
              /\ pc' = pc
        /\ status' = "returned" =>
              /\ err = ""
              /\ log = Pipeline
              /\ ~Rejected(caller)
      ]_vars

C12_Witness ==
    /\ status = "failed"
    /\ err = "KeyError"
    /\ "zip_code" \notin caller.cols
    /\ log[Len(log)] = "drop_unnecessary_cols"
    /\ Ran("fix_rate_cols")
    /\ Ran("fill_nas")
    /\ caller.rows # <<>>
    /\ df.rows # <<>>
    /\ df.rows[1]["int_rate"] # caller.rows[1]["int_rate"]

====
